---------------------------- MODULE Spec2Model ----------------------------
(***************************************************************************)
(* Model of the liquidity monitoring agent (src/index.js).                 *)
(*                                                                         *)
(* Numbers: every numeric field of a snapshot is an integer here           *)
(* (prices in whole units, percentages in whole percent, amounts in whole  *)
(* dollars, times in seconds).  On integers the double arithmetic of the   *)
(* source decides every threshold of detectAlerts and analyzeTokenRisk     *)
(* exactly as the cross-multiplied integer comparisons below do.  The      *)
(* sentiment score, a sum of products with 0.4, 0.6, ..., is kept as an    *)
(* exact fraction [num, den]; the rounding of binary doubles is not        *)
(* modelled.                                                               *)
(*                                                                         *)
(* Strings that the code transforms (price_usd, chainId, tokenAddress,     *)
(* tokenKey, file names) are sequences of one-character strings.           *)
(***************************************************************************)
EXTENDS Integers, Sequences, FiniteSets, TLC

VARIABLES
    dataCache,      \* const dataCache = {}       : tokenKey -> snapshot
    priceHistory,   \* const priceHistory = {}    : tokenKey -> list of price points
    disk,           \* the files data/<name>.json : file name -> stored text
    clock,          \* Date.now() / 1000
    apiKey,         \* whether process.env.CLAUDE_API_KEY is set
    inv,            \* the invocations of run(): position and locals of each
    started,        \* number of invocations begun so far
    fetchLog,       \* history: per tokenKey, the last two snapshots fetched
    pushLog,        \* history: per tokenKey, the price points pushed, in order
    overlapped,     \* history: per tokenKey, whether two invocations overlapped
    call            \* a direct application of one analytics function

vars == <<dataCache, priceHistory, disk, clock, apiKey, inv, started,
          fetchLog, pushLog, overlapped, call>>

-----------------------------------------------------------------------------
(* Values *)

\* JavaScript's undefined / null.
NULL == [undefined |-> TRUE]

Abs(x) == IF x < 0 THEN -x ELSE x

Min(a, b) == IF a < b THEN a ELSE b

Max(a, b) == IF a > b THEN a ELSE b

\* Number.prototype.toFixed(digits) of the quotient num / den (den > 0):
\* the quotient scaled by 10^digits and rounded to the nearest integer,
\* halves away from zero.
ToFixed(num, den, digits) ==
    LET scale == IF digits = 0 THEN 1 ELSE IF digits = 1 THEN 10 ELSE 100
        n == Abs(num) * scale
        q == (2 * n + den) \div (2 * den)
    IN  IF num < 0 THEN -q ELSE q

DigitValue(c) ==
    CASE c = "0" -> 0 [] c = "1" -> 1 [] c = "2" -> 2 [] c = "3" -> 3
      [] c = "4" -> 4 [] c = "5" -> 5 [] c = "6" -> 6 [] c = "7" -> 7
      [] c = "8" -> 8 [] c = "9" -> 9

\* parseFloat on a string of decimal digits (the price_usd strings of the
\* model): the number the digits denote.
RECURSIVE ParseFloat(_)
ParseFloat(s) ==
    IF s = <<>> THEN 0
    ELSE 10 * ParseFloat(SubSeq(s, 1, Len(s) - 1)) + DigitValue(s[Len(s)])

-----------------------------------------------------------------------------
(* Configuration constants *)

THRESHOLDS ==
    [ liquidity_min          |-> 100000,
      volatility_threshold   |-> 20,
      abnormal_tx_ratio      |-> 10,
      impermanent_loss_risk  |-> 30,
      quick_dump_risk        |-> 15,
      new_token_risk_days    |-> 7,
      healthy_buy_sell_ratio |-> 12,     \* 1.2, in tenths; never read
      pump_warning_threshold |-> 50 ]

ALERT_CONFIG ==
    [ price_change_threshold     |-> 10,
      volume_change_threshold    |-> 50,
      liquidity_change_threshold |-> 20 ]

\* Math.min(risk_score, 70)
RiskCeiling == 70

\* priceHistory[tokenKey].length > 1000 ; slice(-1000)
HistoryCap == 1000

SecondsPerDay == 86400

-----------------------------------------------------------------------------
(* detectAlerts *)

Returned(v) == [status |-> "returned", value |-> v]

Threw(e) == [status |-> "threw", error |-> e]

Alert(category, direction, pct) ==
    [category |-> category, direction |-> direction, pct |-> pct]

\* A metric block that also alerts on a change equal to its threshold.
AlertStepInclusive(alerts, category, currentV, previousV, threshold) ==
    IF previousV > 0 /\ Abs(currentV - previousV) * 100 >= threshold * previousV
    THEN Append(alerts,
                Alert(category,
                      IF currentV > previousV THEN "increased" ELSE "decreased",
                      ToFixed(Abs(currentV - previousV) * 100, previousV, 2)))
    ELSE alerts

\* One metric of detectAlerts: the alerts list after the metric's block.
\*   if (previous > 0) { change = Math.abs((current - previous) / previous * 100)
\*     if (change > threshold) alerts.push(`... ${direction} by ${change.toFixed(2)}%`) }
AlertStep(alerts, category, currentV, previousV, threshold) ==
    IF previousV > 0 /\ Abs(currentV - previousV) * 100 > threshold * previousV
    THEN Append(alerts,
                Alert(category,
                      IF currentV > previousV THEN "increased" ELSE "decreased",
                      ToFixed(Abs(currentV - previousV) * 100, previousV, 2)))
    ELSE alerts

\* function detectAlerts(current, previous).  Reading previous.price_usd of an
\* undefined previous is a TypeError.
DetectAlerts(current, previous) ==
    IF previous = NULL THEN Threw("TypeError")
    ELSE
      LET a1 == AlertStep(<<>>, "PRICE", ParseFloat(current.price_usd),
                          ParseFloat(previous.price_usd),
                          ALERT_CONFIG.price_change_threshold)
          a2 == AlertStep(a1, "VOLUME", current.volume.h1, previous.volume.h1,
                          ALERT_CONFIG.volume_change_threshold)
          a3 == AlertStep(a2, "LIQUIDITY", current.liquidity.usd,
                          previous.liquidity.usd,
                          ALERT_CONFIG.liquidity_change_threshold)
      IN  Returned(a3)

-----------------------------------------------------------------------------
(* analyzeTokenRisk *)

\* A vulnerability message: its fixed text and the number formatted into it
\* (0 for a message without a number).
Vuln(text, value) == [text |-> text, value |-> value]

EmptyFinding == [risk_score |-> 0, vulnerabilities |-> <<>>, recommendations |-> <<>>]

\* vulnerabilities.push(v); risk_score += weight; recommendations.push(r)
Fire(acc, v, weight, r) ==
    [ risk_score      |-> acc.risk_score + weight,
      vulnerabilities |-> Append(acc.vulnerabilities, v),
      recommendations |-> Append(acc.recommendations, r) ]

\* Liquidity check
RuleLiquidity(acc, tokenData) ==
    IF tokenData.liquidity.usd < THRESHOLDS.liquidity_min
    THEN Fire(acc, Vuln("Low liquidity", 0), 30,
              "Increase liquidity or wait for higher liquidity levels")
    ELSE acc

\* A volatility rule that pushes the nested finding ahead of its parent.
RuleVolatilityNestedFirst(acc, tokenData) ==
    LET volatility == Abs(tokenData.price_change.h6)
    IN  IF volatility > THRESHOLDS.volatility_threshold
        THEN IF volatility > THRESHOLDS.impermanent_loss_risk
             THEN Fire(Fire(acc, Vuln("High impermanent loss risk", 0), 10,
                            "Consider impermanent loss risks"),
                       Vuln("High volatility", ToFixed(volatility, 1, 2)), 20,
                       "Exercise caution due to high fluctuations")
             ELSE Fire(acc, Vuln("High volatility", ToFixed(volatility, 1, 2)), 20,
                       "Exercise caution due to high fluctuations")
        ELSE acc

\* Price volatility, with the nested impermanent-loss check
RuleVolatility(acc, tokenData) ==
    LET volatility == Abs(tokenData.price_change.h6)
    IN  IF volatility > THRESHOLDS.volatility_threshold
        THEN LET a == Fire(acc, Vuln("High volatility", ToFixed(volatility, 1, 2)), 20,
                           "Exercise caution due to high fluctuations")
             IN  IF volatility > THRESHOLDS.impermanent_loss_risk
                 THEN Fire(a, Vuln("High impermanent loss risk", 0), 10,
                           "Consider impermanent loss risks")
                 ELSE a
        ELSE acc

\* Transaction patterns
RuleTransactions(acc, tokenData) ==
    LET tx_h6 == tokenData.txns.h6.buys + tokenData.txns.h6.sells
        tx_h1 == tokenData.txns.h1.buys + tokenData.txns.h1.sells
    IN  IF tx_h1 > 0 /\ tx_h6 > THRESHOLDS.abnormal_tx_ratio * tx_h1
        THEN Fire(acc, Vuln("Unusual transaction pattern", 0), 20,
                  "Monitor for market manipulation")
        ELSE acc

\* Market cap vs liquidity
RuleMarketCap(acc, tokenData) ==
    IF tokenData.market_cap > 0 /\ tokenData.market_cap < tokenData.liquidity.usd
    THEN Fire(acc, Vuln("Market cap < liquidity", 0), 20, "Review valuation")
    ELSE acc

\* Token age: (currentTime - pair_created_at) / 86400 < new_token_risk_days
RuleTokenAge(acc, tokenData, now) ==
    LET age == now - tokenData.pair_created_at
    IN  IF age < THRESHOLDS.new_token_risk_days * SecondsPerDay
        THEN Fire(acc, Vuln("New token", ToFixed(age, SecondsPerDay, 1)), 15,
                  "Consider smaller position size")
        ELSE acc

\* Sell pressure
RuleSellPressure(acc, tokenData) ==
    LET h24_buys  == tokenData.txns.h24.buys
        h24_sells == tokenData.txns.h24.sells
        total_tx  == h24_buys + h24_sells
    IN  IF total_tx > 10 /\ h24_sells * 100 > THRESHOLDS.quick_dump_risk * total_tx
        THEN Fire(acc, Vuln("High selling pressure", ToFixed(h24_sells * 100, total_tx, 1)),
                  25, "Watch for potential sell-off")
        ELSE acc

\* Pump detection
RulePump(acc, tokenData) ==
    IF tokenData.price_change.h24 > THRESHOLDS.pump_warning_threshold
    THEN Fire(acc, Vuln("Possible pump", ToFixed(tokenData.price_change.h24, 1, 2)), 5,
              "Extreme caution advised")
    ELSE acc

\* Sudden price changes
RuleSuddenChange(acc, tokenData, previousData) ==
    IF previousData # NULL
    THEN LET previousPrice == ParseFloat(previousData.price_usd)
             currentPrice  == ParseFloat(tokenData.price_usd)
         IN  IF previousPrice > 0
                /\ Abs(currentPrice - previousPrice) * 100
                     > ALERT_CONFIG.price_change_threshold * previousPrice
             THEN Fire(acc, Vuln("Sudden price change",
                                 ToFixed(Abs(currentPrice - previousPrice) * 100,
                                         previousPrice, 2)),
                       10, "Investigate price movement")
             ELSE acc
    ELSE acc

\* A clamp at the usual ceiling of a percentage score.
ClampScoreAt100(risk_score) == Min(risk_score, 100)

\* Math.min(risk_score, 70)
ClampScore(risk_score) == Min(risk_score, RiskCeiling)

\* function analyzeTokenRisk(tokenData, previousData); now is Date.now() / 1000.
AnalyzeTokenRisk(tokenData, previousData, now) ==
    LET r1 == RuleLiquidity(EmptyFinding, tokenData)
        r2 == RuleVolatility(r1, tokenData)
        r3 == RuleTransactions(r2, tokenData)
        r4 == RuleMarketCap(r3, tokenData)
        r5 == RuleTokenAge(r4, tokenData, now)
        r6 == RuleSellPressure(r5, tokenData)
        r7 == RulePump(r6, tokenData)
        r8 == RuleSuddenChange(r7, tokenData, previousData)
    IN  [ risk_score      |-> ClampScore(r8.risk_score),
          vulnerabilities |-> r8.vulnerabilities,
          recommendations |-> r8.recommendations ]

-----------------------------------------------------------------------------
(* analyzeMarketSentiment *)

\* An exact fraction num / den, den > 0.
Frac(num, den) == [num |-> num, den |-> den]

\* f > n / d   and   f < n / d   (d > 0)
FracGt(f, n, d) == f.num * d > n * f.den

FracLt(f, n, d) == f.num * d < n * f.den

\* |f - g| as a fraction
FracAbsDiff(f, g) == Frac(Abs(f.num * g.den - g.num * f.den), f.den * g.den)

\* The sentiment ladder with the 0.3 bound taken inclusively.
LadderInclusive(overall_sentiment) ==
    IF FracGt(overall_sentiment, 7, 10) THEN "Strong bullish sentiment"
    ELSE IF ~FracLt(overall_sentiment, 3, 10) THEN "Moderate bullish"
    ELSE IF FracLt(overall_sentiment, -7, 10) THEN "Strong bearish"
    ELSE IF FracLt(overall_sentiment, -3, 10) THEN "Moderate bearish"
    ELSE "Neutral"

\* if (overall > 0.7) ... else if (> 0.3) ... else if (< -0.7) ... else if (< -0.3) ... else
Ladder(overall_sentiment) ==
    IF FracGt(overall_sentiment, 7, 10) THEN "Strong bullish sentiment"
    ELSE IF FracGt(overall_sentiment, 3, 10) THEN "Moderate bullish"
    ELSE IF FracLt(overall_sentiment, -7, 10) THEN "Strong bearish"
    ELSE IF FracLt(overall_sentiment, -3, 10) THEN "Moderate bearish"
    ELSE "Neutral"

\* function analyzeMarketSentiment(tokenData, previousSentiment)
AnalyzeMarketSentiment(tokenData, previousSentiment) ==
    LET h24_buys  == tokenData.txns.h24.buys
        h24_sells == tokenData.txns.h24.sells
        total_tx  == h24_buys + h24_sells
        \* tx_sentiment = txNum / txDen
        txNum == IF total_tx > 0 THEN h24_buys - h24_sells ELSE 0
        txDen == IF total_tx > 0 THEN total_tx ELSE 1
        h1  == tokenData.price_change.h1       \* price_1h  = h1  / 100
        h24 == tokenData.price_change.h24      \* price_24h = h24 / 100
        \* price_sentiment, in thousandths, clamped to [-1, 1]
        psK == Max(-1000, Min(1000, 6 * h1 + 4 * h24))
        \* social_sentiment, in thousandths
        ssK == 3 * h1 + 7 * h24
        \* 0.4 * tx + 0.4 * price + 0.2 * social, over 5000 * txDen
        overall_sentiment == Frac(2000 * txNum + 2 * txDen * psK + txDen * ssK,
                                  5000 * txDen)
        t1 == <<Ladder(overall_sentiment)>>
        t2 == IF h1 > 0 /\ h24 < 0
                THEN Append(t1, "Positive momentum vs negative trend")
              ELSE IF h1 < 0 /\ h24 > 0
                THEN Append(t1, "Negative momentum vs positive trend")
              ELSE t1
        t3 == IF h24_buys > h24_sells * 2 THEN Append(t2, "Strong buying pressure")
              ELSE IF h24_sells > h24_buys * 2 THEN Append(t2, "Strong selling pressure")
              ELSE t2
        t4 == IF previousSentiment # NULL
                 /\ FracGt(FracAbsDiff(overall_sentiment, previousSentiment.score), 3, 10)
              THEN Append(t3, IF FracGt(overall_sentiment, previousSentiment.score.num,
                                        previousSentiment.score.den)
                              THEN "Significant positive shift"
                              ELSE "Significant negative shift")
              ELSE t3
    IN  [ score     |-> overall_sentiment,
          breakdown |-> [ social       |-> Frac(ssK, 1000),
                          transactions |-> Frac(txNum, txDen),
                          price_action |-> Frac(psK, 1000) ],
          trends    |-> t4 ]

-----------------------------------------------------------------------------
(* generateAIInsights, generateAnalyticsReport *)

\* insights.slice(0, n)
Slice0(s, n) == SubSeq(s, 1, Min(Len(s), n))

\* async function generateAIInsights(tokenData, weeklyData, sentiment);
\* keySet is whether process.env.CLAUDE_API_KEY is set.
GenerateAIInsights(tokenData, weeklyData, sentiment, keySet) ==
    IF ~keySet THEN <<"AI insights unavailable - API key missing">>
    ELSE Slice0(<<"Monitor liquidity closely.",
                  "Consider impermanent loss risk.",
                  "Unusual transaction pattern detected.">>, 5)

\* async function generateAnalyticsReport(tokenData, riskAnalysis, weeklyData,
\* sentiment): the report object, given the insights it awaited and
\* now = Date.now() / 1000.
GenerateAnalyticsReport(tokenData, riskAnalysis, weeklyData, sentiment, ai_insights, now) ==
    [ token_name   |-> tokenData.base_token.name,
      token_symbol |-> tokenData.base_token.symbol,
      timestamp    |-> now,
      metrics      |->
        [ price        |-> [ current |-> ParseFloat(tokenData.price_usd),
                             change  |-> [ h1  |-> tokenData.price_change.h1,
                                           h6  |-> tokenData.price_change.h6,
                                           h24 |-> tokenData.price_change.h24 ] ],
          volume       |-> [ h1  |-> tokenData.volume.h1,
                             h6  |-> tokenData.volume.h6,
                             h24 |-> tokenData.volume.h24 ],
          liquidity    |-> tokenData.liquidity.usd,
          market_cap   |-> tokenData.market_cap,
          fdv          |-> tokenData.fdv,
          transactions |->
            [ h1 |-> [ buys  |-> tokenData.txns.h1.buys,
                       sells |-> tokenData.txns.h1.sells,
                       ratio |-> IF tokenData.txns.h1.sells # 0
                                 THEN Frac(tokenData.txns.h1.buys, tokenData.txns.h1.sells)
                                 ELSE Frac(tokenData.txns.h1.buys, 1) ] ] ],
      risk         |-> riskAnalysis,
      ai_insights  |-> ai_insights ]

\* JSON.stringify(value, null, indent): the text, kept as the value it denotes
\* and the indentation it was written with.
JSONStringify(value, indent) == [json |-> value, indent |-> indent]

\* JSON.parse(text)
JSONParse(text) == text.json

-----------------------------------------------------------------------------
(* getTokenData, transformDexResponse *)

\* pair.<field> || dflt
Field(r, name, dflt) == IF name \in DOMAIN r THEN r[name] ELSE dflt

\* pair.<outer>?.<inner> || dflt
Nested(r, outer, inner, dflt) ==
    IF outer \in DOMAIN r THEN Field(r[outer], inner, dflt) ELSE dflt

\* function transformDexResponse(pair), on the fields the analytics read.
TransformDexResponse(pair) ==
    [ chain_id     |-> Field(pair, "chainId", <<>>),
      base_token   |-> [ name   |-> Nested(pair, "baseToken", "name", <<>>),
                         symbol |-> Nested(pair, "baseToken", "symbol", <<>>) ],
      price_usd    |-> IF Field(pair, "priceUsd", <<>>) = <<>> THEN <<"0">>
                       ELSE pair.priceUsd,
      txns         |-> [ h1  |-> Nested(pair, "txns", "h1",  [buys |-> 0, sells |-> 0]),
                         h6  |-> Nested(pair, "txns", "h6",  [buys |-> 0, sells |-> 0]),
                         h24 |-> Nested(pair, "txns", "h24", [buys |-> 0, sells |-> 0]) ],
      volume       |-> [ h24 |-> Nested(pair, "volume", "h24", 0),
                         h6  |-> Nested(pair, "volume", "h6", 0),
                         h1  |-> Nested(pair, "volume", "h1", 0) ],
      price_change |-> [ h1  |-> Nested(pair, "priceChange", "h1", 0),
                         h6  |-> Nested(pair, "priceChange", "h6", 0),
                         h24 |-> Nested(pair, "priceChange", "h24", 0) ],
      liquidity    |-> [ usd |-> Nested(pair, "liquidity", "usd", 0) ],
      fdv          |-> Field(pair, "fdv", 0),
      market_cap   |-> Field(pair, "marketCap", 0),
      pair_created_at |-> Field(pair, "pairCreatedAt", 0) ]

\* The answer of axios.get: a thrown error (network, timeout, non-2xx), or a
\* body with or without a pairs list.
NetworkError == [kind |-> "error"]

BodyWithoutPairs == [kind |-> "body"]

BodyWithPairs(pairs) == [kind |-> "body", pairs |-> pairs]

\* async function getTokenData(chainId, tokenAddress), given the answer to its
\* request: the transformed first pair of the requested chain, or null.
GetTokenData(chainId, tokenAddress, response) ==
    IF response.kind = "error" THEN NULL
    ELSE IF "pairs" \notin DOMAIN response THEN NULL
    ELSE LET hits == {n \in 1..Len(response.pairs) :
                         Field(response.pairs[n], "chainId", <<>>) = chainId}
         IN  IF hits = {} THEN NULL
             ELSE TransformDexResponse(
                      response.pairs[CHOOSE n \in hits : \A m \in hits : n <= m])

-----------------------------------------------------------------------------
(* saveWeeklyData, loadWeeklyData *)

\* String.prototype.replace(from, to) with a string pattern: the first
\* occurrence only.
RECURSIVE ReplaceFirst(_, _, _)
ReplaceFirst(s, from, to) ==
    IF s = <<>> THEN <<>>
    ELSE IF Head(s) = from THEN <<to>> \o Tail(s)
    ELSE <<Head(s)>> \o ReplaceFirst(Tail(s), from, to)

\* path.join(__dirname, 'data', `${tokenKey.replace('/', '_')}.json`)
Filename(tokenKey) == <<"data/">> \o ReplaceFirst(tokenKey, "/", "_") \o <<".json">>

\* `${chainId}-${tokenAddress}`
TokenKey(chainId, tokenAddress) == chainId \o <<"-">> \o tokenAddress

\* A save whose write error escapes.
SaveWeeklyDataUncaught(files, tokenKey, data, ioOk) ==
    IF ioOk
    THEN [ status |-> "returned",
           disk   |-> [files EXCEPT ![Filename(tokenKey)] = JSONStringify(data, 2)] ]
    ELSE [ status |-> "threw", disk |-> files ]

\* A save that keeps a document that is already there.
SaveWeeklyDataOnce(files, tokenKey, data, ioOk) ==
    IF ioOk /\ files[Filename(tokenKey)] = NULL
    THEN [ status |-> "returned",
           disk   |-> [files EXCEPT ![Filename(tokenKey)] = JSONStringify(data, 2)] ]
    ELSE [ status |-> "returned", disk |-> files ]

\* async function saveWeeklyData(tokenKey, data); ioOk is whether mkdir and
\* writeFile succeed.  Every error is caught and logged.
SaveWeeklyData(files, tokenKey, data, ioOk) ==
    IF ioOk
    THEN [ status |-> "returned",
           disk   |-> [files EXCEPT ![Filename(tokenKey)] = JSONStringify(data, 2)] ]
    ELSE [ status |-> "returned", disk |-> files ]

\* async function loadWeeklyData(tokenKey); ioOk is whether readFile succeeds
\* on a file that is there.  A missing file and every other error give null.
LoadWeeklyData(files, tokenKey, ioOk) ==
    IF ioOk /\ files[Filename(tokenKey)] # NULL
    THEN Returned(JSONParse(files[Filename(tokenKey)]))
    ELSE Returned(NULL)

-----------------------------------------------------------------------------
(* The monitorLiquidity capability: run({ args }) *)

\* The return value when getTokenData gave nothing:
\* `Error: Token data not found for ${tokenAddress} on ${chainId}`
ErrorString(args) ==
    [ error |-> "Error: Token data not found",
      tokenAddress |-> args.tokenAddress, chainId |-> args.chainId ]

\* const previousData = dataCache[tokenKey]
PreviousData(cache, tokenKey) == cache[tokenKey]

\* if (previousData) { const alerts = detectAlerts(tokenData, previousData) ... }
\* : the alerts logged, or the error that escapes.
ProcessAlerts(tokenData, previousData) ==
    IF previousData # NULL THEN DetectAlerts(tokenData, previousData)
    ELSE Returned(<<>>)

\* A cache that keeps the first snapshot it was given for a key.
UpdateCacheOnce(cache, tokenKey, tokenData) ==
    IF cache[tokenKey] = NULL THEN [cache EXCEPT ![tokenKey] = tokenData] ELSE cache

\* dataCache[tokenKey] = tokenData
UpdateCache(cache, tokenKey, tokenData) == [cache EXCEPT ![tokenKey] = tokenData]

\* const pricePoint = { timestamp: Date.now() / 1000, price: ..., volume: ... }
PricePoint(tokenData, now) ==
    [ timestamp |-> now,
      price     |-> ParseFloat(tokenData.price_usd),
      volume    |-> tokenData.volume.h1 ]

\* Array.prototype.slice(-n) of a list with at least n elements
SliceLast(s, n) == SubSeq(s, Len(s) - n + 1, Len(s))

\* A history trimmed from the wrong end: slice(0, 1000).
PushHistoryKeepOldest(history, tokenKey, pricePoint) ==
    LET pushed == Append(history[tokenKey], pricePoint)
    IN  [history EXCEPT ![tokenKey] =
            IF Len(pushed) > HistoryCap THEN SubSeq(pushed, 1, HistoryCap) ELSE pushed]

\* if (!priceHistory[tokenKey]) priceHistory[tokenKey] = []
\* priceHistory[tokenKey].push(pricePoint)
\* if (priceHistory[tokenKey].length > 1000) priceHistory[tokenKey] = ....slice(-1000)
\* (a key without an entry holds the empty list here)
PushHistory(history, tokenKey, pricePoint) ==
    LET pushed == Append(history[tokenKey], pricePoint)
    IN  [history EXCEPT ![tokenKey] =
            IF Len(pushed) > HistoryCap THEN SliceLast(pushed, HistoryCap) ELSE pushed]

\* A handler that updates its stores before it looks at what it fetched.
OnFetchedStoresFirst(cache, history, tokenKey, args, tokenData, now) ==
    IF tokenData = NULL
    THEN [ pc |-> "done", ret |-> ErrorString(args), previousData |-> NULL,
           alerts |-> <<>>,
           dataCache |-> UpdateCache(cache, tokenKey, tokenData),
           priceHistory |-> history ]
    ELSE LET previousData == PreviousData(cache, tokenKey)
             alerts == ProcessAlerts(tokenData, previousData)
         IN  [ pc |-> "load", ret |-> NULL, previousData |-> previousData,
               alerts |-> alerts.value,
               dataCache |-> UpdateCache(cache, tokenKey, tokenData),
               priceHistory |-> PushHistory(history, tokenKey,
                                            PricePoint(tokenData, now)) ]

\* run(), from the resolution of getTokenData to the call of loadWeeklyData:
\* the early return, the alerts, and the update of both stores.
OnFetched(cache, history, tokenKey, args, tokenData, now) ==
    IF tokenData = NULL
    THEN [ pc |-> "done", ret |-> ErrorString(args), previousData |-> NULL,
           alerts |-> <<>>, dataCache |-> cache, priceHistory |-> history ]
    ELSE LET previousData == PreviousData(cache, tokenKey)
             alerts == ProcessAlerts(tokenData, previousData)
         IN  IF alerts.status = "threw"
             THEN [ pc |-> "threw", ret |-> NULL, previousData |-> previousData,
                    alerts |-> <<>>, dataCache |-> cache, priceHistory |-> history ]
             ELSE [ pc |-> "load", ret |-> NULL, previousData |-> previousData,
                    alerts |-> alerts.value,
                    dataCache |-> UpdateCache(cache, tokenKey, tokenData),
                    priceHistory |-> PushHistory(history, tokenKey,
                                                 PricePoint(tokenData, now)) ]

-----------------------------------------------------------------------------
(* The environment: requests, provider answers, bounds *)

\* Invocations begun in a run of non-overlapping invocations.
MaxInvocations == 3

\* Invocations begun, any of which may be in flight together, in a run of
\* overlapping invocations.
MaxOverlap == 2

\* The long run that fills the price history: the invocations already
\* completed when it is taken up, and the invocations begun by its end.
WarmInvocations == 995

MaxAppends == 1020

Sol == <<"s", "o", "l">>

Eth == <<"e", "t", "h">>

\* The arguments of the invocations: one token on one chain, another token
\* (its address holds a '/') on another.
Args ==
    { [chainId |-> Sol, tokenAddress |-> <<"0", "x", "a">>],
      [chainId |-> Eth, tokenAddress |-> <<"x", "/", "a">>] }

\* The one request that the overlapping invocations all make.
SameArgs == { a \in Args : a.chainId = Sol }

Keys == { TokenKey(a.chainId, a.tokenAddress) : a \in Args }

Files == { Filename(k) : k \in Keys }

\* The clock when the process starts: ten days after the epoch.
Now0 == 10 * SecondsPerDay

\* Provider records.  Calm: an old, liquid, quiet pair.
CalmPair(chain) ==
    [ chainId     |-> chain,
      baseToken   |-> [name |-> <<"T">>, symbol |-> <<"T">>],
      priceUsd    |-> <<"1", "0", "0">>,
      txns        |-> [ h1  |-> [buys |-> 1, sells |-> 1],
                        h6  |-> [buys |-> 5, sells |-> 5],
                        h24 |-> [buys |-> 20, sells |-> 2] ],
      volume      |-> [h1 |-> 100, h6 |-> 600, h24 |-> 2400],
      priceChange |-> [h1 |-> 0, h6 |-> 0, h24 |-> 0],
      liquidity   |-> [usd |-> 100000],
      fdv         |-> 900000,
      marketCap   |-> 500000,
      pairCreatedAt |-> 0 ]

\* Hot: a three-day-old pair, thin, volatile, sold off; no market cap given.
HotPair(chain) ==
    [ chainId     |-> chain,
      baseToken   |-> [name |-> <<"T">>, symbol |-> <<"T">>],
      priceUsd    |-> <<"1", "1", "1">>,
      txns        |-> [ h1  |-> [buys |-> 1, sells |-> 1],
                        h6  |-> [buys |-> 15, sells |-> 15],
                        h24 |-> [buys |-> 10, sells |-> 95] ],
      volume      |-> [h1 |-> 151, h6 |-> 700, h24 |-> 2500],
      priceChange |-> [h1 |-> 50, h6 |-> 35, h24 |-> 60],
      liquidity   |-> [usd |-> 50000],
      fdv         |-> 900000,
      pairCreatedAt |-> Now0 - 3 * SecondsPerDay ]

\* Bare: a record with nothing but its chain.
BarePair(chain) == [chainId |-> chain]

\* What the provider may answer to one request.
Responses ==
    { NetworkError,
      BodyWithoutPairs,
      BodyWithPairs(<<CalmPair(Eth), CalmPair(Sol)>>),
      BodyWithPairs(<<HotPair(Sol), CalmPair(Sol), HotPair(Eth)>>),
      BodyWithPairs(<<BarePair(Eth)>>) }

\* The deterministic feed of the long run: hot on every third second.
FeedAt(now) ==
    IF now % 3 = 0 THEN BodyWithPairs(<<HotPair(Sol), HotPair(Eth)>>)
    ELSE BodyWithPairs(<<CalmPair(Sol), CalmPair(Eth)>>)

-----------------------------------------------------------------------------
(* State *)

InFlight == {"fetch", "load", "insights", "save"}

\* An invocation that has not begun: position and locals of run().  stored,
\* loadOk and saveOk are history: the file's text when loadWeeklyData read
\* it, and whether the read and the write succeeded.
IdleInv ==
    [ pc |-> "idle", args |-> NULL, tokenKey |-> <<>>, tokenData |-> NULL,
      previousData |-> NULL, alerts |-> <<>>, weeklyData |-> NULL,
      sentiment |-> NULL, riskAnalysis |-> NULL, report |-> NULL, ret |-> NULL,
      stored |-> NULL, loadOk |-> TRUE, saveOk |-> TRUE ]

NotCalled == [fn |-> "none"]

\* The state after the module is loaded, with n invocation slots.
InitStores(n) ==
    /\ dataCache = [k \in Keys |-> NULL]
    /\ priceHistory = [k \in Keys |-> <<>>]
    /\ disk = [f \in Files |-> NULL]
    /\ clock = Now0
    /\ inv = [i \in 1..n |-> IdleInv]
    /\ started = 0
    /\ fetchLog = [k \in Keys |-> <<>>]
    /\ pushLog = [k \in Keys |-> <<>>]
    /\ overlapped = [k \in Keys |-> FALSE]
    /\ call = NotCalled

-----------------------------------------------------------------------------
(* Actions of run() *)

\* run({ args }) is called: tokenKey is built and getTokenData is awaited.
\* exclusive: the caller waits for every earlier invocation to settle.
Invoke(i, a, limit, exclusive) ==
    LET key == TokenKey(a.chainId, a.tokenAddress)
    IN  /\ started < limit
        /\ inv[i].pc \notin InFlight
        /\ exclusive => \A j \in DOMAIN inv : inv[j].pc \notin InFlight
        /\ inv' = [inv EXCEPT ![i] =
                      [IdleInv EXCEPT !.pc = "fetch", !.args = a, !.tokenKey = key]]
        /\ started' = started + 1
        /\ clock' = clock + 1
        /\ overlapped' = [overlapped EXCEPT ![key] =
              @ \/ \E j \in DOMAIN inv :
                       j # i /\ inv[j].pc \in InFlight /\ inv[j].tokenKey = key]
        /\ UNCHANGED <<dataCache, priceHistory, disk, apiKey, fetchLog, pushLog, call>>

\* getTokenData resolves: the early return, or alerts and both stores.
FetchResolve(i, response) ==
    /\ inv[i].pc = "fetch"
    /\ LET a == inv[i].args
           key == inv[i].tokenKey
           tokenData == GetTokenData(a.chainId, a.tokenAddress, response)
           out == OnFetched(dataCache, priceHistory, key, a, tokenData, clock)
       IN  /\ inv' = [inv EXCEPT ![i].pc = out.pc, ![i].ret = out.ret,
                                 ![i].tokenData = tokenData,
                                 ![i].previousData = out.previousData,
                                 ![i].alerts = out.alerts]
           /\ dataCache' = out.dataCache
           /\ priceHistory' = out.priceHistory
           /\ fetchLog' = IF tokenData = NULL THEN fetchLog
                          ELSE [fetchLog EXCEPT ![key] =
                                   IF @ = <<>> THEN <<tokenData>>
                                   ELSE <<@[Len(@)], tokenData>>]
           /\ pushLog' = IF tokenData = NULL THEN pushLog
                         ELSE [pushLog EXCEPT ![key] =
                                  Append(@, PricePoint(tokenData, clock))]
    /\ UNCHANGED <<disk, clock, apiKey, started, overlapped, call>>

\* loadWeeklyData resolves; sentiment and risk are computed and
\* generateAnalyticsReport begins by awaiting generateAIInsights.
LoadResolve(i, ioOk) ==
    /\ inv[i].pc = "load"
    /\ LET loaded == LoadWeeklyData(disk, inv[i].tokenKey, ioOk)
       IN  inv' = [inv EXCEPT
              ![i].pc = IF loaded.status = "threw" THEN "threw" ELSE "insights",
              ![i].weeklyData = IF loaded.status = "threw" THEN NULL ELSE loaded.value,
              ![i].sentiment = AnalyzeMarketSentiment(inv[i].tokenData, NULL),
              ![i].riskAnalysis =
                  AnalyzeTokenRisk(inv[i].tokenData, inv[i].previousData, clock),
              ![i].stored = disk[Filename(inv[i].tokenKey)],
              ![i].loadOk = ioOk]
    /\ UNCHANGED <<dataCache, priceHistory, disk, clock, apiKey, started,
                   fetchLog, pushLog, overlapped, call>>

\* generateAIInsights resolves; the report is built and saveWeeklyData awaited.
InsightsResolve(i) ==
    /\ inv[i].pc = "insights"
    /\ inv' = [inv EXCEPT
          ![i].pc = "save",
          ![i].report =
              GenerateAnalyticsReport(
                  inv[i].tokenData, inv[i].riskAnalysis, inv[i].weeklyData,
                  inv[i].sentiment,
                  GenerateAIInsights(inv[i].tokenData, inv[i].weeklyData,
                                     inv[i].sentiment, apiKey),
                  clock)]
    /\ UNCHANGED <<dataCache, priceHistory, disk, clock, apiKey, started,
                   fetchLog, pushLog, overlapped, call>>

\* saveWeeklyData resolves; run returns JSON.stringify(report).
SaveResolve(i, ioOk) ==
    /\ inv[i].pc = "save"
    /\ LET saved == SaveWeeklyData(disk, inv[i].tokenKey, inv[i].report, ioOk)
       IN  /\ disk' = saved.disk
           /\ inv' = [inv EXCEPT
                 ![i].pc = IF saved.status = "threw" THEN "threw" ELSE "done",
                 ![i].ret = IF saved.status = "threw" THEN NULL
                            ELSE JSONStringify(inv[i].report, 0),
                 ![i].saveOk = ioOk]
    /\ UNCHANGED <<dataCache, priceHistory, clock, apiKey, started,
                   fetchLog, pushLog, overlapped, call>>

-----------------------------------------------------------------------------
(* Specifications of the service *)

\* Non-overlapping invocations: each is begun after the one before settled.
Init ==
    /\ InitStores(1)
    /\ apiKey \in BOOLEAN

Next ==
    \/ \E a \in Args : Invoke(1, a, MaxInvocations, TRUE)
    \/ \E r \in Responses : FetchResolve(1, r)
    \/ \E ok \in BOOLEAN : LoadResolve(1, ok)
    \/ InsightsResolve(1)
    \/ \E ok \in BOOLEAN : SaveResolve(1, ok)

Spec == Init /\ [][Next]_vars

\* Overlapping invocations for one token key whose persistence operations
\* all succeed.
InitOverlap ==
    /\ InitStores(MaxOverlap)
    /\ apiKey = FALSE

NextOverlap ==
    \E i \in 1..MaxOverlap :
        \/ \E a \in SameArgs : Invoke(i, a, MaxOverlap, FALSE)
        \/ \E r \in Responses : FetchResolve(i, r)
        \/ LoadResolve(i, TRUE)
        \/ InsightsResolve(i)
        \/ SaveResolve(i, TRUE)

SpecOverlap == InitOverlap /\ [][NextOverlap]_vars

\* The long run: one key, non-overlapping invocations, the deterministic feed.
WarmArgs == CHOOSE a \in SameArgs : TRUE

WarmKey == TokenKey(WarmArgs.chainId, WarmArgs.tokenAddress)

\* The snapshot that the invocation begun at clock now - 1 fetches.
FeedSnapshot(now) == GetTokenData(WarmArgs.chainId, WarmArgs.tokenAddress, FeedAt(now))

\* The price points pushed by the first n invocations of the long run.
WarmPoints(n) == [j \in 1..n |-> PricePoint(FeedSnapshot(Now0 + j), Now0 + j)]

\* The document that the n-th invocation of the long run saves (n > 1).
WarmReport(n) ==
    LET td == FeedSnapshot(Now0 + n)
    IN  GenerateAnalyticsReport(
            td, AnalyzeTokenRisk(td, FeedSnapshot(Now0 + n - 1), Now0 + n), NULL,
            AnalyzeMarketSentiment(td, NULL),
            GenerateAIInsights(td, NULL, AnalyzeMarketSentiment(td, NULL), FALSE),
            Now0 + n)

\* The long run is taken up when its first WarmInvocations invocations have
\* completed (fewer than the history holds, so nothing was trimmed yet); the
\* locals of a completed invocation are gone.
InitHistory ==
    /\ dataCache = [k \in Keys |->
                       IF k = WarmKey THEN FeedSnapshot(Now0 + WarmInvocations) ELSE NULL]
    /\ priceHistory = [k \in Keys |->
                          IF k = WarmKey THEN WarmPoints(WarmInvocations) ELSE <<>>]
    /\ disk = [f \in Files |->
                  IF f = Filename(WarmKey)
                  THEN JSONStringify(WarmReport(WarmInvocations), 2) ELSE NULL]
    /\ clock = Now0 + WarmInvocations
    /\ apiKey = FALSE
    /\ inv = [i \in 1..1 |-> IdleInv]
    /\ started = WarmInvocations
    /\ fetchLog = [k \in Keys |->
                      IF k = WarmKey
                      THEN <<FeedSnapshot(Now0 + WarmInvocations - 1),
                             FeedSnapshot(Now0 + WarmInvocations)>>
                      ELSE <<>>]
    /\ pushLog = [k \in Keys |->
                     IF k = WarmKey THEN WarmPoints(WarmInvocations) ELSE <<>>]
    /\ overlapped = [k \in Keys |-> FALSE]
    /\ call = NotCalled

NextHistory ==
    \/ \E a \in SameArgs : Invoke(1, a, MaxAppends, TRUE)
    \/ FetchResolve(1, FeedAt(clock))
    \/ LoadResolve(1, TRUE)
    \/ InsightsResolve(1)
    \/ SaveResolve(1, TRUE)

\* The same run from the start of the process.
InitCold ==
    /\ InitStores(1)
    /\ apiKey = FALSE

SpecCold == InitCold /\ [][NextHistory]_vars

\* Under SpecCold: when the first WarmInvocations invocations have completed,
\* the stores are those InitHistory starts from.
WarmIsReached ==
    (started = WarmInvocations /\ inv[1].pc = "done") =>
        /\ dataCache = [k \in Keys |->
               IF k = WarmKey THEN FeedSnapshot(Now0 + WarmInvocations) ELSE NULL]
        /\ priceHistory = [k \in Keys |->
               IF k = WarmKey THEN WarmPoints(WarmInvocations) ELSE <<>>]
        /\ disk = [f \in Files |->
               IF f = Filename(WarmKey)
               THEN JSONStringify(WarmReport(WarmInvocations), 2) ELSE NULL]
        /\ clock = Now0 + WarmInvocations
        /\ pushLog = priceHistory

SpecHistory == InitHistory /\ [][NextHistory]_vars

-----------------------------------------------------------------------------
(* Direct applications of the analytics functions *)

Tx(buys, sells) == [buys |-> buys, sells |-> sells]

\* A snapshot as transformDexResponse builds it, from the fields that vary.
Snapshot(price, vol, liq, ch1, ch6, ch24, t1, t6, t24, mcap, created) ==
    [ chain_id     |-> Sol,
      base_token   |-> [name |-> <<"T">>, symbol |-> <<"T">>],
      price_usd    |-> price,
      txns         |-> [h1 |-> t1, h6 |-> t6, h24 |-> t24],
      volume       |-> [h24 |-> 0, h6 |-> 0, h1 |-> vol],
      price_change |-> [h1 |-> ch1, h6 |-> ch6, h24 |-> ch24],
      liquidity    |-> [usd |-> liq],
      fdv          |-> 0,
      market_cap   |-> mcap,
      pair_created_at |-> created ]

\* A previous snapshot, of which the analytics read price, volume, liquidity.
Previous(price, vol, liq) ==
    Snapshot(price, vol, liq, 0, 0, 0, Tx(0, 0), Tx(0, 0), Tx(0, 0), 0, 0)

\* Input values on, next to and away from every threshold.
PriceStrings ==
    { <<"0">>, <<"8", "9">>, <<"9", "0">>, <<"1", "0", "0">>,
      <<"1", "1", "0">>, <<"1", "1", "1">> }

PreviousPriceStrings == { <<"0">>, <<"1", "0", "0">> }

LiquidityValues == {50000, 100000, 200000}

MarketCapValues == {0, 150000}

Change6hValues == {20, -25, 30, 35, -35}

Change24hValues == {50, 60}

\* <<txns.h1, txns.h6>>: no hourly trade; a ratio of exactly 10; a ratio above 10
TxPatterns ==
    { <<Tx(0, 0), Tx(25, 25)>>, <<Tx(1, 1), Tx(10, 10)>>, <<Tx(1, 1), Tx(10, 11)>> }

\* txns.h24: none; 10 trades; 15% sells of 20; 90% sells; 16% sells of 25
Tx24Values == { Tx(0, 0), Tx(5, 5), Tx(17, 3), Tx(10, 95), Tx(21, 4) }

CreatedValues ==
    { Now0 - 7 * SecondsPerDay, Now0 - 7 * SecondsPerDay + 1, Now0 - 3 * SecondsPerDay }

\* analyzeTokenRisk(tokenData, previousData) is applied.
CallAnalyzeTokenRisk ==
    /\ call = NotCalled
    /\ \E liq \in LiquidityValues, ch6 \in Change6hValues, t \in TxPatterns,
          mcap \in MarketCapValues, created \in CreatedValues, t24 \in Tx24Values,
          ch24 \in Change24hValues, price \in {<<"1", "1", "0">>, <<"1", "1", "1">>},
          prev \in {NULL} \cup {Previous(p, 0, 0) : p \in PreviousPriceStrings} :
          LET tokenData == Snapshot(price, 0, liq, 0, ch6, ch24, t[1], t[2], t24,
                                    mcap, created)
          IN  call' = [ fn |-> "analyzeTokenRisk", tokenData |-> tokenData,
                        previousData |-> prev, now |-> Now0,
                        result |-> AnalyzeTokenRisk(tokenData, prev, Now0) ]
    /\ UNCHANGED <<dataCache, priceHistory, disk, clock, apiKey, inv, started,
                   fetchLog, pushLog, overlapped>>

SentimentChangeValues == {-150, -50, 0, 50, 150}

SentimentTxValues == { Tx(0, 0), Tx(1, 1), Tx(5, 0), Tx(0, 5), Tx(5, 2), Tx(2, 5) }

PreviousSentiments ==
    { NULL, [score |-> Frac(0, 1)], [score |-> Frac(3, 10)], [score |-> Frac(-1, 1)] }

\* analyzeMarketSentiment(tokenData, previousSentiment) is applied.
CallAnalyzeMarketSentiment ==
    /\ call = NotCalled
    /\ \E ch1 \in SentimentChangeValues, ch24 \in SentimentChangeValues,
          t24 \in SentimentTxValues, prev \in PreviousSentiments :
          LET tokenData == Snapshot(<<"1", "0", "0">>, 0, 0, ch1, 0, ch24,
                                    Tx(0, 0), Tx(0, 0), t24, 0, 0)
          IN  call' = [ fn |-> "analyzeMarketSentiment", tokenData |-> tokenData,
                        previousSentiment |-> prev,
                        result |-> AnalyzeMarketSentiment(tokenData, prev) ]
    /\ UNCHANGED <<dataCache, priceHistory, disk, clock, apiKey, inv, started,
                   fetchLog, pushLog, overlapped>>

VolumeValues == {0, 49, 50, 100, 150, 151}

PreviousVolumeValues == {0, 100}

AlertLiquidityValues == {79999, 80000, 100000, 120000, 120001}

PreviousLiquidityValues == {0, 100000}

\* detectAlerts(current, previous) is applied, previous given or not.
CallDetectAlerts ==
    /\ call = NotCalled
    /\ \E price \in PriceStrings, vol \in VolumeValues, liq \in AlertLiquidityValues,
          prev \in {NULL} \cup
                   { Previous(p, v, l) : p \in PreviousPriceStrings,
                                         v \in PreviousVolumeValues,
                                         l \in PreviousLiquidityValues } :
          LET current == Snapshot(price, vol, liq, 0, 0, 0, Tx(0, 0), Tx(0, 0),
                                  Tx(0, 0), 0, 0)
          IN  call' = [ fn |-> "detectAlerts", current |-> current, previous |-> prev,
                        result |-> DetectAlerts(current, prev) ]
    /\ UNCHANGED <<dataCache, priceHistory, disk, clock, apiKey, inv, started,
                   fetchLog, pushLog, overlapped>>

InitPure ==
    /\ InitStores(1)
    /\ apiKey = FALSE

NextPure ==
    \/ CallAnalyzeTokenRisk
    \/ CallAnalyzeMarketSentiment
    \/ CallDetectAlerts

SpecPure == InitPure /\ [][NextPure]_vars

-----------------------------------------------------------------------------
(* Properties *)

\* The weight each rule of the risk analyzer adds for an input, stated from
\* the rule's condition.
FiredWeights(td, prev, now) ==
    LET vol == Abs(td.price_change.h6)
        h1  == td.txns.h1.buys + td.txns.h1.sells
        h6  == td.txns.h6.buys + td.txns.h6.sells
        h24 == td.txns.h24.buys + td.txns.h24.sells
        cp  == ParseFloat(td.price_usd)
        pp  == IF prev = NULL THEN 0 ELSE ParseFloat(prev.price_usd)
    IN  << IF td.liquidity.usd < 100000 THEN 30 ELSE 0,
           IF vol > 20 THEN 20 ELSE 0,
           IF vol > 20 /\ vol > 30 THEN 10 ELSE 0,
           IF h1 > 0 /\ h6 > 10 * h1 THEN 20 ELSE 0,
           IF td.market_cap > 0 /\ td.market_cap < td.liquidity.usd THEN 20 ELSE 0,
           IF now - td.pair_created_at < 7 * 86400 THEN 15 ELSE 0,
           IF h24 > 10 /\ td.txns.h24.sells * 100 > 15 * h24 THEN 25 ELSE 0,
           IF td.price_change.h24 > 50 THEN 5 ELSE 0,
           IF prev # NULL /\ pp > 0 /\ Abs(cp - pp) * 100 > 10 * pp THEN 10 ELSE 0 >>

RECURSIVE SumSeq(_)
SumSeq(s) == IF s = <<>> THEN 0 ELSE Head(s) + SumSeq(Tail(s))

\* C1: for every snapshot and every previous snapshot, present or absent, the
\* risk score that analyzeTokenRisk returns is the smaller of 70 and the sum
\* of the weights (30, 20, +10 nested, 20, 20, 15, 25, 5, 10) of the rules
\* that fired, and so lies between 0 and 70.
C1_ScoreIsClampedSum ==
    call.fn = "analyzeTokenRisk" =>
        LET sum == SumSeq(FiredWeights(call.tokenData, call.previousData, call.now))
        IN  /\ call.result.risk_score = (IF sum < 70 THEN sum ELSE 70)
            /\ call.result.risk_score >= 0
            /\ call.result.risk_score <= 70

\* An input on which the fired weights exceed 70 and the score is 70.
C1_Witness ==
    /\ call.fn = "analyzeTokenRisk"
    /\ SumSeq(FiredWeights(call.tokenData, call.previousData, call.now)) > 70
    /\ call.result.risk_score = 70

\* The vulnerabilities in rule order, each with its recommendation.
RuleTable ==
    << [text |-> "Low liquidity",
        rec  |-> "Increase liquidity or wait for higher liquidity levels"],
       [text |-> "High volatility", rec |-> "Exercise caution due to high fluctuations"],
       [text |-> "High impermanent loss risk", rec |-> "Consider impermanent loss risks"],
       [text |-> "Unusual transaction pattern", rec |-> "Monitor for market manipulation"],
       [text |-> "Market cap < liquidity", rec |-> "Review valuation"],
       [text |-> "New token", rec |-> "Consider smaller position size"],
       [text |-> "High selling pressure", rec |-> "Watch for potential sell-off"],
       [text |-> "Possible pump", rec |-> "Extreme caution advised"],
       [text |-> "Sudden price change", rec |-> "Investigate price movement"] >>

\* C2: the vulnerabilities of analyzeTokenRisk are a subsequence of the fixed
\* rule order, the recommendations are as many, and the i-th recommendation
\* belongs to the rule of the i-th vulnerability.
C2_PairedInRuleOrder ==
    call.fn = "analyzeTokenRisk" =>
        LET v == call.result.vulnerabilities
            r == call.result.recommendations
            fired == { v[n].text : n \in DOMAIN v }
            InFired(e) == e.text \in fired
        IN  /\ Len(v) = Len(r)
            /\ [n \in DOMAIN v |-> [text |-> v[n].text, rec |-> r[n]]]
                   = SelectSeq(RuleTable, InFired)

\* Eight rules fire at once, the nested one and the one on the previous price
\* among them.
C2_Witness ==
    /\ call.fn = "analyzeTokenRisk"
    /\ Len(call.result.vulnerabilities) = 8
    /\ \E n \in DOMAIN call.result.vulnerabilities :
           call.result.vulnerabilities[n].text = "High impermanent loss risk"
    /\ call.result.vulnerabilities[8].text = "Sudden price change"

Exceeds(currentV, previousV, threshold) ==
    previousV > 0 /\ Abs(currentV - previousV) * 100 > threshold * previousV

\* C4: for any two snapshots detectAlerts emits an alert for a metric exactly
\* when the metric's previous value is positive and its relative change, in
\* percent, strictly exceeds the threshold (price 10, volume 50, liquidity
\* 20); the metrics are decided independently, the alerts come in price,
\* volume, liquidity order, and the direction is 'increased' exactly when the
\* current value is the larger.
C4_AlertsIffExceeds ==
    (call.fn = "detectAlerts" /\ call.previous # NULL) =>
        LET cur == [ PRICE     |-> ParseFloat(call.current.price_usd),
                     VOLUME    |-> call.current.volume.h1,
                     LIQUIDITY |-> call.current.liquidity.usd ]
            prv == [ PRICE     |-> ParseFloat(call.previous.price_usd),
                     VOLUME    |-> call.previous.volume.h1,
                     LIQUIDITY |-> call.previous.liquidity.usd ]
            thr == [PRICE |-> 10, VOLUME |-> 50, LIQUIDITY |-> 20]
            Due(m) == Exceeds(cur[m], prv[m], thr[m])
            due == SelectSeq(<<"PRICE", "VOLUME", "LIQUIDITY">>, Due)
            got == call.result.value
        IN  /\ call.result.status = "returned"
            /\ [n \in DOMAIN got |-> got[n].category] = due
            /\ \A n \in DOMAIN got :
                   (got[n].direction = "increased") <=>
                       (cur[got[n].category] > prv[got[n].category])
            /\ \A n \in DOMAIN got :
                   got[n].direction \in {"increased", "decreased"}

\* A price change of exactly 10% raises no alert while volume and liquidity,
\* one up and one down, do.
C4_Witness ==
    /\ call.fn = "detectAlerts"
    /\ call.previous # NULL
    /\ ParseFloat(call.previous.price_usd) = 100
    /\ ParseFloat(call.current.price_usd) = 110
    /\ call.result.status = "returned"
    /\ Len(call.result.value) = 2
    /\ call.result.value[1] = Alert("VOLUME", "increased", 5100)
    /\ call.result.value[2].category = "LIQUIDITY"
    /\ call.result.value[2].direction = "decreased"

\* C5: after any sequence of invocations the price history of every token key
\* holds at most 1000 entries, and it is the most recent min(n, 1000) of the
\* n price points pushed for the key, in push order.
C5_HistoryIsLastThousand ==
    \A k \in Keys :
        LET n == Len(pushLog[k])
            m == IF n < 1000 THEN n ELSE 1000
        IN  /\ Len(priceHistory[k]) <= 1000
            /\ priceHistory[k] = SubSeq(pushLog[k], n - m + 1, n)

\* More than 1000 points were pushed and the oldest is gone.
C5_Witness ==
    \E k \in Keys :
        /\ Len(pushLog[k]) > 1000
        /\ Len(priceHistory[k]) = 1000
        /\ priceHistory[k][1] = pushLog[k][Len(pushLog[k]) - 999]
        /\ priceHistory[k][1] # pushLog[k][1]

\* The snapshot fetched by the most recent earlier successful invocation for
\* the key of an invocation that has itself fetched one: absent if none.
EarlierFetched(k) == IF Len(fetchLog[k]) = 2 THEN fetchLog[k][1] ELSE NULL

\* C6: with non-overlapping invocations, the previous snapshot handed to the
\* alert detector and to the risk analyzer in a successful invocation for
\* key k is the snapshot fetched by the most recent earlier successful
\* invocation for k (absent if none: then no alert is produced and the rule
\* on the previous price does not fire), and the in-memory entry for k is
\* then the newly fetched snapshot.
C6_PreviousIsLastFetched ==
    \A i \in DOMAIN inv :
        (inv[i].pc \in {"load", "insights", "save", "done"} /\ inv[i].tokenData # NULL) =>
            LET k == inv[i].tokenKey
                td == inv[i].tokenData
                prev == EarlierFetched(k)
            IN  /\ fetchLog[k][Len(fetchLog[k])] = td
                /\ inv[i].previousData = prev
                /\ inv[i].alerts = (IF prev = NULL THEN <<>>
                                    ELSE DetectAlerts(td, prev).value)
                /\ dataCache[k] = td
                /\ inv[i].pc # "load" =>
                       /\ inv[i].riskAnalysis = AnalyzeTokenRisk(td, prev, clock)
                       /\ prev = NULL =>
                              \A n \in DOMAIN inv[i].riskAnalysis.vulnerabilities :
                                  inv[i].riskAnalysis.vulnerabilities[n].text
                                      # "Sudden price change"

\* A third invocation completed for a key fetched before, with alerts, while
\* the other key holds a snapshot of its own.
C6_Witness ==
    \E i \in DOMAIN inv :
        /\ inv[i].pc = "done"
        /\ inv[i].tokenData # NULL
        /\ inv[i].previousData # NULL
        /\ inv[i].previousData # inv[i].tokenData
        /\ inv[i].alerts # <<>>
        /\ \E k \in Keys : k # inv[i].tokenKey /\ dataCache[k] # NULL

\* The report of an invocation, were the read of the stored document and
\* the write of the new one both to succeed.
ReportIfPersistenceWorks(i) ==
    LET td == inv[i].tokenData
        weekly == IF inv[i].stored # NULL THEN JSONParse(inv[i].stored) ELSE NULL
        sentiment == AnalyzeMarketSentiment(td, NULL)
    IN  GenerateAnalyticsReport(
            td, AnalyzeTokenRisk(td, inv[i].previousData, clock), weekly, sentiment,
            GenerateAIInsights(td, weekly, sentiment, apiKey), clock)

\* C8: whenever the fetch yields a snapshot the invocation runs to completion
\* and returns the serialized report, whether the load and the save fail or
\* succeed; the report returned, the in-memory snapshot and the history are
\* those of an invocation whose persistence operations both succeed.
C8_PersistenceFailuresAreAbsorbed ==
    \A i \in DOMAIN inv :
        /\ inv[i].pc # "threw"
        /\ (inv[i].pc = "done" /\ inv[i].tokenData # NULL) =>
               /\ inv[i].ret = JSONStringify(ReportIfPersistenceWorks(i), 0)
               /\ dataCache[inv[i].tokenKey] = inv[i].tokenData
               /\ priceHistory[inv[i].tokenKey] = pushLog[inv[i].tokenKey]
               /\ (inv[i].loadOk /\ inv[i].stored # NULL) =>
                      inv[i].weeklyData = JSONParse(inv[i].stored)
               /\ ~inv[i].loadOk => inv[i].weeklyData = NULL

\* An invocation returned its report although the read of an existing
\* document and the write both failed.
C8_Witness ==
    \E i \in DOMAIN inv :
        /\ inv[i].pc = "done"
        /\ inv[i].tokenData # NULL
        /\ inv[i].stored # NULL
        /\ ~inv[i].loadOk
        /\ ~inv[i].saveOk
        /\ inv[i].ret = JSONStringify(inv[i].report, 0)

\* C9: when the fetch yields no data the invocation returns the error string
\* and leaves the in-memory snapshots, the histories and the persisted
\* documents of every key as they were.
C9_NoDataChangesNothing ==
    [][ \A i \in DOMAIN inv :
            (inv[i].pc = "fetch" /\ inv'[i].pc # "fetch" /\ inv'[i].tokenData = NULL) =>
                /\ inv'[i].pc = "done"
                /\ inv'[i].ret = ErrorString(inv[i].args)
                /\ dataCache' = dataCache
                /\ priceHistory' = priceHistory
                /\ disk' = disk ]_vars

\* An invocation returned the error string for a key that has a snapshot in
\* memory and a document on disk.
C9_Witness ==
    \E i \in DOMAIN inv :
        /\ inv[i].pc = "done"
        /\ inv[i].tokenData = NULL
        /\ inv[i].ret = ErrorString(inv[i].args)
        /\ dataCache[inv[i].tokenKey] # NULL
        /\ disk[Filename(inv[i].tokenKey)] # NULL

Settled == \A i \in DOMAIN inv : inv[i].pc \notin InFlight

\* The persisted document of key k is a report built from the snapshot that
\* the in-memory entry of k holds.
PersistedMatchesMemory(k) ==
    dataCache[k] # NULL =>
        /\ disk[Filename(k)] # NULL
        /\ LET doc == JSONParse(disk[Filename(k)])
           IN  doc = GenerateAnalyticsReport(dataCache[k], doc.risk, NULL, NULL,
                                             doc.ai_insights, doc.timestamp)

\* C10 as stated: when invocations for one key overlap and persistence
\* succeeds, then once all have completed the persisted document is the report
\* built from the snapshot the in-memory entry holds.
C10_OverlapKeepsThemTogether ==
    Settled => \A k \in Keys : PersistedMatchesMemory(k)

\* C10 amended: when the invocations for a key never overlap and persistence
\* succeeds, then whenever none is in flight the persisted document is the
\* report built from the snapshot the in-memory entry holds.
C10_SequentialKeepsThemTogether ==
    Settled => \A k \in Keys : ~overlapped[k] => PersistedMatchesMemory(k)

\* Two invocations for one key completed one after the other on different
\* snapshots.
C10_Witness ==
    /\ Settled
    /\ \E k \in Keys :
           /\ ~overlapped[k]
           /\ Len(fetchLog[k]) = 2
           /\ fetchLog[k][1] # fetchLog[k][2]
           /\ dataCache[k] = fetchLog[k][2]
           /\ disk[Filename(k)] # NULL

\* The five labels of the sentiment ladder.
LadderLabels ==
    { "Strong bullish sentiment", "Moderate bullish", "Strong bearish",
      "Moderate bearish", "Neutral" }

\* C7: exactly one of the five ladder labels appears in trends, it is the
\* first element, and it is the one the score selects against 0.7, 0.3, -0.7,
\* -0.3 with strict comparisons: a score of exactly 0.3 or -0.3 is neutral,
\* exactly 0.7 moderate bullish, exactly -0.7 moderate bearish.
C7_OneLadderLabelFirst ==
    call.fn = "analyzeMarketSentiment" =>
        LET t == call.result.trends
            num == call.result.score.num * 10
            den == call.result.score.den
        IN  /\ Cardinality({ n \in DOMAIN t : t[n] \in LadderLabels }) = 1
            /\ Len(t) >= 1
            /\ (t[1] = "Strong bullish sentiment") <=> (num > 7 * den)
            /\ (t[1] = "Moderate bullish") <=> (num > 3 * den /\ num <= 7 * den)
            /\ (t[1] = "Strong bearish") <=> (num < -7 * den)
            /\ (t[1] = "Moderate bearish") <=> (num < -3 * den /\ num >= -7 * den)
            /\ (t[1] = "Neutral") <=> (num >= -3 * den /\ num <= 3 * den)

\* A score of exactly 0.3 is labelled neutral, ahead of further trends.
C7_Witness ==
    /\ call.fn = "analyzeMarketSentiment"
    /\ call.result.score.num * 10 = 3 * call.result.score.den
    /\ call.result.trends[1] = "Neutral"
    /\ Len(call.result.trends) >= 2

=============================================================================
